---- MODULE Spec2Model ----
(***************************************************************************)
(* Model of i18n_merger.py: the tree validator (_validate_tree), the deep  *)
(* merge routine (_merge_nested) and the merge driver (JsonMerger.merge    *)
(* followed by _write_output in main).                                     *)
(*                                                                         *)
(* A tree node is a record [t, v]: t is the Python type of the node        *)
(* ("map" for dict, "list" for list, "str" for str, "num" for any other    *)
(* JSON value such as an int) and v its content: a function from keys to   *)
(* nodes, a sequence of nodes, the string, or "" for a number.             *)
(***************************************************************************)
EXTENDS Integers, Sequences, FiniteSets, TLC

VARIABLES merged, pending, hist, pc, err, output, coerced

vars == <<merged, pending, hist, pc, err, output, coerced>>

(* ------------------------------ bounds --------------------------------- *)

\* Largest number of nodes of one file's tree.
MaxNodes == 3

\* Keys of the files' objects; "a" is also the stem of a file.
Keys == {"k", "a"}

\* Stems of the *.json files of the input directory (the language tags).
\* File names of one directory are distinct, so the stems are.
Langs == {"a", "b"}

\* Strings of the files.
Strs == {"x"}

\* Orders in which the keys of a file's objects are written in the file.
KeyOrders == {<<"k", "a">>, <<"a", "k">>}

(* ------------------------------- trees --------------------------------- *)

Str(s) == [t |-> "str", v |-> s]

Num == [t |-> "num", v |-> ""]

Map(f) == [t |-> "map", v |-> f]

List(l) == [t |-> "list", v |-> l]

EmptyDict == [x \in {} |-> Num]

EmptyMap == Map(EmptyDict)

EmptyList == List(<<>>)

RECURSIVE TreesOfSize(_)
RECURSIVE ItemsOfSize(_)
RECURSIVE EntriesOfSize(_, _)

\* The sequences of trees whose sizes add up to n.
ItemsOfSize(n) ==
    IF n = 0 THEN {<<>>}
    ELSE UNION {{<<c>> \o rest : c \in TreesOfSize(i), rest \in ItemsOfSize(n - i)}
                : i \in 1..n}

\* The functions from a subset of the keys of ks to trees whose sizes add up to n.
EntriesOfSize(ks, n) ==
    IF ks = {} THEN (IF n = 0 THEN {EmptyDict} ELSE {})
    ELSE LET k == CHOOSE x \in ks : TRUE
         IN EntriesOfSize(ks \ {k}, n)
            \cup UNION {{(k :> c) @@ rest : c \in TreesOfSize(i),
                                            rest \in EntriesOfSize(ks \ {k}, n - i)}
                        : i \in 1..n}

\* The trees of exactly n nodes a parser can yield.
TreesOfSize(n) ==
    IF n = 1 THEN {Str(s) : s \in Strs} \cup {Num, EmptyMap, EmptyList}
    ELSE {Map(f) : f \in EntriesOfSize(Keys, n - 1)}
         \cup {List(l) : l \in ItemsOfSize(n - 1)}

Trees == UNION {TreesOfSize(n) : n \in 1..MaxNodes}

(* ------------------------------ errors --------------------------------- *)

NoErr == [kind |-> "", file |-> "", key |-> "", index |-> -1]

\* InvalidTranslationFile raised by _validate_tree.
InvalidStructure(filename) ==
    [kind |-> "InvalidStructure", file |-> filename, key |-> "", index |-> -1]

\* InvalidTranslationFile("Structure mismatch at key ...") raised by _merge_nested.
StructureMismatch(key, filename) ==
    [kind |-> "StructureMismatch", file |-> filename, key |-> key, index |-> -1]

\* InvalidTranslationFile("... unsupported array element ...") raised by _merge_nested.
UnsupportedElementType(key, i, filename) ==
    [kind |-> "UnsupportedElementType", file |-> filename, key |-> key, index |-> i]

\* AttributeError raised by incoming.items() on a payload that is no dict.
AttributeError ==
    [kind |-> "AttributeError", file |-> "", key |-> "", index |-> -1]

(* ----------------------------- validator ------------------------------- *)

RECURSIVE ValidateTree(_)

\* _validate_tree: TRUE when it returns, FALSE when it raises.
ValidateTree(node) ==
    IF node.t = "map" THEN \A k \in DOMAIN node.v : ValidateTree(node.v[k])
    ELSE IF node.t = "list" THEN \A i \in 1..Len(node.v) : ValidateTree(node.v[i])
    ELSE node.t = "str"

(* ---------------------------- deep merge ------------------------------- *)

\* d[k] = v on a dict.
SetItem(d, k, v) == [x \in DOMAIN d \cup {k} |-> IF x = k THEN v ELSE d[x]]

\* d.setdefault(k, v): the dict afterwards.
SetDefault(d, k, v) == IF k \in DOMAIN d THEN d ELSE SetItem(d, k, v)

\* isinstance(node, Mapping)
IsMapping(node) == node.t = "map"

\* isinstance(node, list)
IsList(node) == node.t = "list"

RECURSIVE Grow(_, _)
RECURSIVE GrowRaw(_, _)

\* A growth loop that appends the incoming elements themselves.
GrowRaw(dst_list, value) ==
    IF Len(dst_list) < Len(value)
    THEN GrowRaw(Append(dst_list, value[Len(dst_list) + 1]), value)
    ELSE dst_list

\* while len(dst_list) < len(value): dst_list.append({})
Grow(dst_list, value) ==
    IF Len(dst_list) < Len(value) THEN Grow(Append(dst_list, EmptyMap), value)
    ELSE dst_list

\* The keys of a dict in the order the file wrote them.
ItemsOrder(incoming, ord) == SelectSeq(ord, LAMBDA k : k \in DOMAIN incoming)

\* What a call leaves behind: the container as mutated so far, the exception
\* raised if any, and whether the coercion of a slot fired.
Result(b, e, co) == [base |-> b, err |-> e, co |-> co]

RECURSIVE MergeNested(_, _, _, _, _)
RECURSIVE MergeEntries(_, _, _, _, _, _, _)
RECURSIVE MergeItems(_, _, _, _, _, _, _, _)

\* for i, item in enumerate(value): ... of _merge_nested, from element i on
\* (i counts from 1; the Python index is i - 1).
MergeItems(dst_list, value, i, key, lang, filename, ord, co) ==
    IF i > Len(value) THEN Result(dst_list, NoErr, co)
    ELSE LET item == value[i]
             fire == ~IsMapping(dst_list[i])
             slot == IF fire THEN EmptyMap ELSE dst_list[i]
             d1 == [dst_list EXCEPT ![i] = slot]
         IN IF IsMapping(item)
            THEN LET r == MergeNested(slot.v, item.v, lang, filename, ord)
                     d2 == [d1 EXCEPT ![i] = Map(r.base)]
                 IN IF r.err # NoErr THEN Result(d2, r.err, co \/ fire \/ r.co)
                    ELSE MergeItems(d2, value, i + 1, key, lang, filename, ord,
                                    co \/ fire \/ r.co)
            ELSE IF item.t = "str"
            THEN MergeItems([d1 EXCEPT ![i] = Map(SetItem(slot.v, lang, item))],
                            value, i + 1, key, lang, filename, ord, co \/ fire)
            ELSE Result(d1, UnsupportedElementType(key, i - 1, filename), co \/ fire)

\* The body of the loop of _merge_nested for one key and its value.
MergeEntry(base, key, value, lang, filename, ord) ==
    IF IsMapping(value)
    THEN LET b1 == SetDefault(base, key, EmptyMap)
         IN IF ~IsMapping(b1[key])
            THEN Result(b1, StructureMismatch(key, filename), FALSE)
            ELSE LET r == MergeNested(b1[key].v, value.v, lang, filename, ord)
                 IN Result([b1 EXCEPT ![key] = Map(r.base)], r.err, r.co)
    ELSE IF IsList(value)
    THEN LET b1 == SetDefault(base, key, EmptyList)
         IN IF ~IsList(b1[key])
            THEN Result(b1, StructureMismatch(key, filename), FALSE)
            ELSE LET r == MergeItems(Grow(b1[key].v, value.v), value.v, 1, key,
                                     lang, filename, ord, FALSE)
                 IN Result([b1 EXCEPT ![key] = List(r.base)], r.err, r.co)
    ELSE LET b1 == SetDefault(base, key, EmptyMap)
             leaf == b1[key]
         IN IF ~IsMapping(leaf)
            THEN Result(b1, StructureMismatch(key, filename), FALSE)
            ELSE Result([b1 EXCEPT ![key] = Map(SetItem(leaf.v, lang, value))],
                        NoErr, FALSE)

\* for key, value in incoming.items(): ... over the keys still to visit.
MergeEntries(base, incoming, keys, lang, filename, ord, co) ==
    IF keys = <<>> THEN Result(base, NoErr, co)
    ELSE LET r == MergeEntry(base, Head(keys), incoming[Head(keys)], lang, filename, ord)
         IN IF r.err # NoErr THEN Result(r.base, r.err, co \/ r.co)
            ELSE MergeEntries(r.base, incoming, Tail(keys), lang, filename, ord,
                              co \/ r.co)

\* _merge_nested(base, incoming, lang, filename) on two dicts.
MergeNested(base, incoming, lang, filename, ord) ==
    MergeEntries(base, incoming, ItemsOrder(incoming, ord), lang, filename, ord, FALSE)

\* _merge_nested called on the payload of a file: incoming.items() raises on a
\* payload that is no dict.
MergePayload(base, payload, lang, filename, ord) ==
    IF ~IsMapping(payload) THEN Result(base, AttributeError, FALSE)
    ELSE MergeNested(base, payload.v, lang, filename, ord)

(* ------------------------------ driver --------------------------------- *)

\* A body that merges the payload before it validates it.
FoldFileMergeFirst(base, payload, lang, filename, ord) ==
    LET r == MergePayload(base, payload, lang, filename, ord)
    IN IF r.err # NoErr THEN r
       ELSE IF ~ValidateTree(payload) THEN Result(r.base, InvalidStructure(filename), r.co)
       ELSE r

\* The body of the loop of merge() after the file is parsed:
\* self._validate_tree(payload, file); _merge_nested(merged, payload, lang, file)
FoldFile(base, payload, lang, filename, ord) ==
    IF ~ValidateTree(payload) THEN Result(base, InvalidStructure(filename), FALSE)
    ELSE MergePayload(base, payload, lang, filename, ord)

\* A loop that skips a file that raised.
AfterFileContinue(e) == "loop"

\* merge() catches nothing: an exception leaves the loop and the program.
AfterFile(e) == IF e = NoErr THEN "loop" ELSE "failed"

NoOutput == [written |-> FALSE, tree |-> EmptyDict]

Init ==
    /\ merged = EmptyDict
    /\ pending \in SUBSET Langs
    /\ hist = <<>>
    /\ pc = "loop"
    /\ err = NoErr
    /\ output = NoOutput
    /\ coerced = FALSE

\* One iteration of the loop of JsonMerger.merge on the file lang.json, whose
\* text parses to payload with its keys in the order ord.
ProcessFile(lang, payload, ord) ==
    /\ pc = "loop"
    /\ lang \in pending
    /\ LET r == FoldFile(merged, payload, lang, lang, ord)
       IN /\ merged' = r.base
          /\ err' = r.err
          /\ coerced' = (coerced \/ r.co)
          /\ pc' = AfterFile(r.err)
    /\ pending' = pending \ {lang}
    /\ hist' = Append(hist, [lang |-> lang, tree |-> payload])
    /\ UNCHANGED output

\* return merged, then _write_output(merger.merge(), args.output) in main.
WriteOutput ==
    /\ pc = "loop"
    /\ pending = {}
    /\ output' = [written |-> TRUE, tree |-> merged]
    /\ pc' = "written"
    /\ UNCHANGED <<merged, pending, hist, err, coerced>>

Next ==
    \/ \E lang \in Langs, payload \in Trees, ord \in KeyOrders :
          ProcessFile(lang, payload, ord)
    \/ WriteOutput

Spec == Init /\ [][Next]_vars

(* ----------------------- runs recomputed from files -------------------- *)

RECURSIVE RunFiles(_, _, _)

\* merge() over the files fs in this order: what the loop leaves behind.
RunFiles(base, fs, ord) ==
    IF fs = <<>> THEN Result(base, NoErr, FALSE)
    ELSE LET r == FoldFile(base, Head(fs).tree, Head(fs).lang, Head(fs).lang, ord)
         IN IF r.err # NoErr THEN r ELSE RunFiles(r.base, Tail(fs), ord)

(* ------------------------------ helpers -------------------------------- *)

Last(s) == s[Len(s)]

MaxOf(S) == CHOOSE n \in S : \A m \in S : m <= n

MinOf(S) == CHOOSE n \in S : \A m \in S : n <= m

\* The file can be folded into an empty accumulator.
FoldsAlone(tree) ==
    \A ord \in KeyOrders : FoldFile(EmptyDict, tree, "a", "a", ord).err = NoErr

RECURSIVE MismatchKeys(_, _)

\* The keys that two trees type differently (object, sequence, string) at the
\* same path.
MismatchKeys(n1, n2) ==
    IF n1.t = "map" /\ n2.t = "map"
    THEN LET common == DOMAIN n1.v \cap DOMAIN n2.v
         IN {k \in common : n1.v[k].t # n2.v[k].t}
            \cup UNION {MismatchKeys(n1.v[k], n2.v[k]) : k \in common}
    ELSE IF n1.t = "list" /\ n2.t = "list"
    THEN UNION {MismatchKeys(n1.v[i], n2.v[i])
                : i \in 1..MinOf({Len(n1.v), Len(n2.v)})}
    ELSE {}

RECURSIVE HasList(_)

HasList(node) ==
    IF node.t = "map" THEN \E k \in DOMAIN node.v : HasList(node.v[k])
    ELSE node.t = "list"

(* ------------------------------- claims -------------------------------- *)

RECURSIVE Holds(_, _, _)

\* The accumulator node acc holds, for the language lang, every string leaf of
\* the file's node at the same path.
Holds(acc, node, lang) ==
    IF node.t = "map"
    THEN /\ acc.t = "map"
         /\ \A k \in DOMAIN node.v :
               k \in DOMAIN acc.v /\ Holds(acc.v[k], node.v[k], lang)
    ELSE IF node.t = "list"
    THEN /\ acc.t = "list"
         /\ Len(acc.v) >= Len(node.v)
         /\ \A i \in 1..Len(node.v) : Holds(acc.v[i], node.v[i], lang)
    ELSE acc.t = "map" /\ lang \in DOMAIN acc.v /\ acc.v[lang] = node

\* C1: after a run that completes without error, for every file with tag L and
\* every string leaf s at path p of its tree, the output holds at p a map whose
\* entry for L is s.
C1_NoLeafLost ==
    pc = "written" =>
        \A i \in 1..Len(hist) : Holds(Map(output.tree), hist[i].tree, hist[i].lang)

RECURSIVE LeafTyped(_)

\* Every map is an object node (no raw string among its values) or a merged
\* leaf (only strings), and every sequence element is such a map.
LeafTyped(node) ==
    IF node.t = "map"
    THEN \/ \A k \in DOMAIN node.v : node.v[k].t = "str"
         \/ \A k \in DOMAIN node.v : node.v[k].t # "str" /\ LeafTyped(node.v[k])
    ELSE IF node.t = "list"
    THEN \A i \in 1..Len(node.v) : node.v[i].t = "map" /\ LeafTyped(node.v[i])
    ELSE FALSE

\* C2: after any successful sequence of folds into the empty accumulator, no
\* map of the accumulator mixes raw strings with containers, and the root
\* holds no raw string.
C2_LeafTyping ==
    pc # "failed" =>
        /\ \A k \in DOMAIN merged : merged[k].t # "str"
        /\ LeafTyped(Map(merged))

\* C3: when the file folded last is a file that folds alone and types a key
\* differently from a file folded before it, its fold fails with
\* StructureMismatch naming such a key and the file.
C3_MismatchDetected ==
    \A i \in 1..(Len(hist) - 1) :
        LET keys == MismatchKeys(hist[i].tree, Last(hist).tree)
        IN (FoldsAlone(Last(hist).tree) /\ keys # {}) =>
              /\ pc = "failed"
              /\ err.kind = "StructureMismatch"
              /\ err.file = Last(hist).lang
              /\ err.key \in keys

RECURSIVE KeyUnion(_, _)

\* At every object level (a path where files hold a map) the accumulator's
\* keys are the union of the keys of the files' maps at that path; fs are the
\* files' nodes at the path of acc.
KeyUnion(acc, fs) ==
    LET maps == {f \in fs : f.t = "map"}
        lists == {f \in fs : f.t = "list"}
        keys == UNION {DOMAIN f.v : f \in maps}
    IN /\ maps # {} =>
            /\ acc.t = "map"
            /\ DOMAIN acc.v = keys
            /\ \A k \in keys :
                  KeyUnion(acc.v[k], {f.v[k] : f \in {g \in maps : k \in DOMAIN g.v}})
       /\ lists # {} =>
            /\ acc.t = "list"
            /\ \A i \in 1..Len(acc.v) :
                  LET gs == {f.v[i] : f \in {g \in lists : i <= Len(g.v)}}
                  IN gs # {} => KeyUnion(acc.v[i], gs)

\* C4: after a successful run, the key set of the output at every object level
\* is the union of the key sets of the files' trees at that path.
C4_StructuralUnion ==
    (pc = "written" /\ hist # <<>>) =>
        KeyUnion(Map(output.tree), {hist[i].tree : i \in 1..Len(hist)})

RECURSIVE NeverShrinks(_, _)

\* Every sequence of old is a sequence at least as long at the same path of new.
NeverShrinks(old, new) ==
    IF old.t = "map"
    THEN IF new.t = "map"
         THEN \A k \in DOMAIN old.v :
                 IF k \in DOMAIN new.v THEN NeverShrinks(old.v[k], new.v[k])
                 ELSE ~HasList(old.v[k])
         ELSE ~HasList(old)
    ELSE IF old.t = "list"
    THEN /\ new.t = "list"
         /\ Len(new.v) >= Len(old.v)
         /\ \A i \in 1..Len(old.v) : NeverShrinks(old.v[i], new.v[i])
    ELSE TRUE

RECURSIVE MaxLength(_, _)

\* Where files hold a sequence, acc is a sequence of the greatest length among
\* them, and a slot reached only by strings holds exactly the entries of the
\* languages that reach it; fs are [lang, node] for the files' nodes at the
\* path of acc.
MaxLength(acc, fs) ==
    LET maps == {f \in fs : f.node.t = "map"}
        lists == {f \in fs : f.node.t = "list"}
    IN /\ maps # {} =>
            /\ acc.t = "map"
            /\ \A k \in UNION {DOMAIN f.node.v : f \in maps} :
                  /\ k \in DOMAIN acc.v
                  /\ MaxLength(acc.v[k],
                               {[lang |-> f.lang, node |-> f.node.v[k]]
                                : f \in {g \in maps : k \in DOMAIN g.node.v}})
       /\ lists # {} =>
            /\ acc.t = "list"
            /\ Len(acc.v) = MaxOf({Len(f.node.v) : f \in lists})
            /\ \A i \in 1..Len(acc.v) :
                  LET gs == {[lang |-> f.lang, node |-> f.node.v[i]]
                             : f \in {g \in lists : i <= Len(g.node.v)}}
                  IN /\ acc.v[i].t = "map"
                     /\ (\A g \in gs : g.node.t = "str") =>
                            DOMAIN acc.v[i].v = {g.lang : g \in gs}
                     /\ MaxLength(acc.v[i], gs)

\* C5: no fold shortens or removes a sequence of the accumulator, and after a
\* successful run every sequence has the greatest length a file contributed at
\* its path, a slot holding entries only for the languages that reach it.
C5_SequenceGrowth ==
    /\ [][NeverShrinks(Map(merged), Map(merged'))]_vars
    /\ [](pc = "written" =>
            MaxLength(Map(output.tree),
                      {[lang |-> hist[i].lang, node |-> hist[i].tree]
                       : i \in 1..Len(hist)}))

\* C6: once a file has failed nothing more is loaded, folded or written, and
\* output is written only after every file was folded without error, and is
\* then the accumulator.
C6_AbortOnFirstError ==
    /\ [][err # NoErr => UNCHANGED <<merged, pending, hist, output>>]_vars
    /\ [](output.written =>
            /\ err = NoErr
            /\ pending = {}
            /\ output.tree = merged
            /\ output.tree = RunFiles(EmptyDict, hist, <<"k", "a">>).base)
    /\ [](err # NoErr => ~output.written)

\* A run that failed on its first file after mutating the accumulator, with a
\* file left unread and nothing written.
C6_Witness ==
    /\ pc = "failed"
    /\ pending # {}
    /\ merged # EmptyDict
    /\ ~output.written

\* C7: a step that processes a file whose tree holds a node that is no map,
\* sequence or string fails with InvalidStructure for that file and leaves the
\* accumulator as it was.
C7_ValidationPrecedesMerge ==
    [][(hist' # hist /\ ~ValidateTree(Last(hist').tree)) =>
          /\ pc' = "failed"
          /\ err' = InvalidStructure(Last(hist').lang)
          /\ merged' = merged]_vars

\* The second file, an object with an invalid node inside a sequence, was
\* rejected and the first file's fold is still in the accumulator.
C7_Witness ==
    /\ Len(hist) = 2
    /\ err.kind = "InvalidStructure"
    /\ merged # EmptyDict
    /\ IsMapping(hist[2].tree)
    /\ \E k \in DOMAIN hist[2].tree.v :
          /\ IsList(hist[2].tree.v[k])
          /\ k \in DOMAIN merged
          /\ IsList(merged[k])

Taxonomy == {"InvalidStructure", "StructureMismatch", "UnsupportedElementType",
             "ParseError"}

\* C8: a run that fails fails with an error of the taxonomy that names the
\* file being processed.
C8_TaxonomyError ==
    pc = "failed" => (err.kind \in Taxonomy /\ err.file = Last(hist).lang)

RECURSIVE SlotsAreMaps(_)

SlotsAreMaps(node) ==
    IF node.t = "map" THEN \A k \in DOMAIN node.v : SlotsAreMaps(node.v[k])
    ELSE IF node.t = "list"
    THEN \A i \in 1..Len(node.v) : node.v[i].t = "map" /\ SlotsAreMaps(node.v[i])
    ELSE TRUE

\* C9: in every accumulator, also one left by a fold that failed part-way,
\* every element of every sequence is a map, and the coercion of a slot to an
\* empty map has never fired.
C9_SlotsAreMaps == SlotsAreMaps(Map(merged)) /\ ~coerced

\* Two files held a non-empty sequence at the same key and the second one was
\* merged into the slots the first one made.
C9_Witness ==
    /\ Len(hist) = 2
    /\ err.kind \notin {"InvalidStructure", "AttributeError"}
    /\ \E k \in Keys :
          /\ IsMapping(hist[1].tree) /\ IsMapping(hist[2].tree)
          /\ k \in DOMAIN hist[1].tree.v /\ k \in DOMAIN hist[2].tree.v
          /\ IsList(hist[1].tree.v[k]) /\ IsList(hist[2].tree.v[k])
          /\ Len(hist[1].tree.v[k].v) > 0 /\ Len(hist[2].tree.v[k].v) > 0
          /\ Len(merged[k].v) > 0

\* The files of fs in the order p.
Reorder(fs, p) == [i \in 1..Len(fs) |-> fs[p[i]]]

\* What a run gives: whether it succeeded and, if so, the merged tree.
Outcome(r) ==
    IF r.err = NoErr THEN [ok |-> TRUE, tree |-> r.base]
    ELSE [ok |-> FALSE, tree |-> EmptyDict]

\* C10: when every file has been processed, every other processing order of
\* the same files gives the same outcome: all fail, or all succeed with the
\* same tree.
C10_OrderIndependence ==
    (pending = {} /\ pc \in {"written", "failed"}) =>
        \A p \in Permutations(1..Len(hist)), ord \in KeyOrders :
            Outcome(RunFiles(EmptyDict, Reorder(hist, p), ord))
                = [ok |-> pc = "written",
                   tree |-> IF pc = "written" THEN output.tree ELSE EmptyDict]

====
